---- MODULE Spec2Model ----
(***************************************************************************)
(* ignoregrets: the snapshot / restore engine (internal/snapshot), the     *)
(* retention pruner (cmd/prune.go) and the selectors of the commands.      *)
(*                                                                         *)
(* Strings whose characters matter (commit ids, archive file names, paths  *)
(* of the working tree, glob patterns) are sequences of one-character      *)
(* strings, compared bytewise as Go compares strings.                      *)
(***************************************************************************)
EXTENDS Integers, Sequences, FiniteSets, TLC

VARIABLES
    snapshots,  \* .ignoregrets/snapshots: archive file name -> archive (sequence of tar entries)
    fs,         \* the working tree: node -> <<"absent">> | <<"dir">> | <<"file", content>>
    now,        \* the wall clock, in minutes (the precision of the file name's time stamp)
    head,       \* the commit `git rev-parse HEAD` reports
    config,     \* the configuration LoadConfig returns (.ignoregrets/config.yaml)
    gitIndex,   \* git's index: whether git can read it, and the paths it tracks
    created,    \* the archive files on disk, in the order the file system saw them created
    running,    \* the CreateSnapshot calls of concurrent processes: how far each one got
    last        \* the last command run: its arguments, its result, the state it started from

vars == <<snapshots, fs, now, head, config, gitIndex, created, running, last>>

----------------------------------------------------------------------------
(* Bounds of the model. *)

MaxMinute == 1        \* the clock runs over minutes 0 .. MaxMinute
MaxSnapshots == 3     \* CreateSnapshot is explored while the directory holds fewer archives
MaxRetention == 2     \* prune --retention ranges over -1 .. MaxRetention
MaxArchives == 1      \* archives in the directory in the restore specification
MaxNameIndex == 12    \* indices of the file-name specification: 0 .. MaxNameIndex
MaxPatterns == 1      \* patterns in each of the configuration's exclude and include lists
MaxCandidates == 3    \* paths in a candidate list handed to filterFiles
MaxProcs == 2         \* processes that call CreateSnapshot at the same time

----------------------------------------------------------------------------
(* Bytes and strings. *)

\* The byte value of the characters archive file names are made of (ASCII).
Ord(c) ==
    CASE c = "." -> 46 [] c = "/" -> 47
      [] c = "0" -> 48 [] c = "1" -> 49 [] c = "2" -> 50 [] c = "3" -> 51
      [] c = "4" -> 52 [] c = "5" -> 53 [] c = "6" -> 54 [] c = "7" -> 55
      [] c = "8" -> 56 [] c = "9" -> 57
      [] c = "T" -> 84 [] c = "_" -> 95
      [] c = "a" -> 97 [] c = "b" -> 98 [] c = "c" -> 99
      [] c = "d" -> 100 [] c = "e" -> 101
      [] c = "f" -> 102 [] c = "g" -> 103 [] c = "i" -> 105 [] c = "j" -> 106
      [] c = "l" -> 108 [] c = "m" -> 109 [] c = "n" -> 110 [] c = "o" -> 111
      [] c = "r" -> 114 [] c = "s" -> 115 [] c = "t" -> 116 [] c = "u" -> 117
      [] c = "v" -> 118 [] c = "y" -> 121 [] c = "z" -> 122

Digit(d) == CASE d = 0 -> "0" [] d = 1 -> "1" [] d = 2 -> "2" [] d = 3 -> "3"
              [] d = 4 -> "4" [] d = 5 -> "5" [] d = 6 -> "6" [] d = 7 -> "7"
              [] d = 8 -> "8" [] d = 9 -> "9"

\* Go's s < t on strings: bytewise, a proper prefix is smaller.
RECURSIVE StrLess(_, _)
StrLess(s, t) ==
    IF t = <<>> THEN FALSE
    ELSE IF s = <<>> THEN TRUE
    ELSE IF Ord(Head(s)) # Ord(Head(t)) THEN Ord(Head(s)) < Ord(Head(t))
    ELSE StrLess(Tail(s), Tail(t))

HasSuffix(s, x) == Len(s) >= Len(x) /\ SubSeq(s, Len(s) - Len(x) + 1, Len(s)) = x

\* strings.Split(name, "_"): the first part, and whether there are two parts or more.
RECURSIVE FirstPart(_)
FirstPart(s) ==
    IF s = <<>> \/ Head(s) = "_" THEN <<>> ELSE <<Head(s)>> \o FirstPart(Tail(s))
HasTwoParts(s) == \E i \in 1..Len(s) : s[i] = "_"

\* fmt's %d of a non-negative int: decimal, no padding.
RECURSIVE Itoa(_)
Itoa(n) == IF n < 10 THEN <<Digit(n)>> ELSE Itoa(n \div 10) \o <<Digit(n % 10)>>

\* time.Format("20060102T1504") of the instant `minute` minutes past
\* 2025-07-26T02:00 UTC: fixed width, zero padded.
FormatTime(minute) ==
    <<"2", "0", "2", "5", "0", "7", "2", "6", "T", "0", "2">>
        \o <<Digit((minute \div 10) % 10), Digit(minute % 10)>>

TarGz == <<".", "t", "a", "r", ".", "g", "z">>

\* fmt.Sprintf("%s_%s_%d.tar.gz", commit, Timestamp.Format(...), Index)
SnapshotName(commit, minute, index) ==
    commit \o <<"_">> \o FormatTime(minute) \o <<"_">> \o Itoa(index) \o TarGz

\* The set S of strings as the ascending sequence sort.Strings gives.
RECURSIVE SortStrings(_)
SortStrings(S) ==
    IF S = {} THEN <<>>
    ELSE LET m == CHOOSE x \in S : \A y \in S \ {x} : StrLess(x, y)
         IN  <<m>> \o SortStrings(S \ {m})

Reverse(s) == [i \in 1..Len(s) |-> s[Len(s) + 1 - i]]

----------------------------------------------------------------------------
(* The working tree. *)

Dot == <<".">>
DotEnv == <<".", "e", "n", "v">>
Build == <<"b", "u", "i", "l", "d">>
BuildOut == <<"b", "u", "i", "l", "d", "/", "o", "u", "t">>
ManifestJson == <<"m", "a", "n", "i", "f", "e", "s", "t", ".", "j", "s", "o", "n">>

Nodes == {DotEnv, Build, BuildOut, ManifestJson}

Absent == <<"absent">>
DirNode == <<"dir">>
File(content) == <<"file", content>>
IsFile(node) == Len(node) = 2

\* The index of the last "/" of p, 0 when it has none.
LastSlash(p) ==
    IF \E i \in 1..Len(p) : p[i] = "/"
    THEN CHOOSE i \in 1..Len(p) : p[i] = "/" /\ \A j \in (i + 1)..Len(p) : p[j] # "/"
    ELSE 0

\* filepath.Dir and filepath.Base of a clean relative path.
Dir(p) == IF LastSlash(p) = 0 THEN Dot ELSE SubSeq(p, 1, LastSlash(p) - 1)
Base(p) == SubSeq(p, LastSlash(p) + 1, Len(p))

RECURSIVE IsDirectory(_, _)
IsDirectory(tree, p) ==
    \/ p = Dot
    \/ p \in DOMAIN tree /\ tree[p] = DirNode /\ IsDirectory(tree, Dir(p))

\* os.Stat(p) returns no error.
StatOk(tree, p) ==
    \/ p = Dot
    \/ p \in DOMAIN tree /\ tree[p] # Absent /\ IsDirectory(tree, Dir(p))

\* The trees a file system can hold: what lies in a directory needs the directory.
WellFormed(tree) ==
    \A p \in DOMAIN tree : tree[p] # Absent => IsDirectory(tree, Dir(p))

RegularFiles(tree) == {p \in DOMAIN tree : IsFile(tree[p]) /\ StatOk(tree, p)}

----------------------------------------------------------------------------
(* internal/git *)

\* The index of a repository that tracks the paths `tracked`, and one git cannot read.
GitIndex(tracked) == [readable |-> TRUE, tracked |-> tracked]
UnreadableIndex == [readable |-> FALSE, tracked |-> {}]

\* The HEAD of a repository without a commit.
NoHead == <<>>

\* GetCurrentCommit: `git rev-parse HEAD` fails when HEAD names no commit.
GetCurrentCommit(h) == [err |-> h = NoHead, commit |-> h]

\* GetIgnoredFiles: the lines of `git ls-files --others --exclude-standard`
\* followed by those of `git ls-files --others --exclude-from=.git/info/exclude`;
\* --others leaves the tracked files out, and every untracked file of the
\* modelled tree is listed by both commands.
GetIgnoredFiles(tree, index) ==
    IF ~index.readable THEN [err |-> TRUE, files |-> <<>>]
    ELSE LET others == SortStrings(RegularFiles(tree) \ index.tracked)
         IN  [err |-> FALSE, files |-> others \o others]

----------------------------------------------------------------------------
(* internal/config *)

DefaultRetention == 10

DefaultConfig ==
    [Retention |-> DefaultRetention, SnapshotOn |-> <<"commit">>,
     RestoreOn |-> <<"checkout">>, HooksEnabled |-> FALSE,
     Exclude |-> <<>>, Include |-> <<>>]

----------------------------------------------------------------------------
(* internal/snapshot: the file filter *)

\* A pattern filepath.Match rejects with ErrBadPattern: a "[" that no "]" closes.
BadPattern(pattern) ==
    \E i \in 1..Len(pattern) :
        pattern[i] = "[" /\ \A j \in (i + 1)..Len(pattern) : pattern[j] # "]"

\* The shell pattern against a name without separators: "*" any run, "?" any one.
RECURSIVE PatternMatch(_, _)
PatternMatch(pattern, name) ==
    IF pattern = <<>> THEN name = <<>>
    ELSE IF Head(pattern) = "*"
         THEN \E k \in 0..Len(name) : PatternMatch(Tail(pattern), SubSeq(name, k + 1, Len(name)))
    ELSE IF name = <<>> THEN FALSE
    ELSE IF Head(pattern) = "?" \/ Head(pattern) = Head(name)
         THEN PatternMatch(Tail(pattern), Tail(name))
    ELSE FALSE

\* matched, err := filepath.Match(pattern, name); err == nil && matched
Match(pattern, name) == ~BadPattern(pattern) /\ PatternMatch(pattern, name)

\* A faulty filterFiles: the loop over cfg.Include is missing.
filterFilesExcludeOnly(files, cfg) ==
    LET excluded(file) ==
            \E i \in 1..Len(cfg.Exclude) : Match(cfg.Exclude[i], Base(file))
    IN  {files[i] : i \in {j \in 1..Len(files) : ~excluded(files[j])}}

\* A faulty filterFiles: the patterns are matched against the whole path.
filterFilesWholePath(files, cfg) ==
    LET excluded(file) ==
            \E i \in 1..Len(cfg.Exclude) : Match(cfg.Exclude[i], file)
        kept == {files[i] : i \in {j \in 1..Len(files) : ~excluded(files[j])}}
        added == {files[i] : i \in {j \in 1..Len(files) :
                     \E k \in 1..Len(cfg.Include) : Match(cfg.Include[k], files[j])}}
    IN  kept \cup added

\* filterFiles: the keys of the map `included`; the order of the slice it
\* returns is the map's iteration order, which Go leaves unspecified.
filterFiles(files, cfg) ==
    LET excluded(file) ==
            \E i \in 1..Len(cfg.Exclude) : Match(cfg.Exclude[i], Base(file))
        kept == {files[i] : i \in {j \in 1..Len(files) : ~excluded(files[j])}}
        added == {files[i] : i \in {j \in 1..Len(files) :
                     \E k \in 1..Len(cfg.Include) : Match(cfg.Include[k], Base(files[j]))}}
    IN  kept \cup added

\* Every order a slice ranging over a map can have.
Orderings(S) ==
    {s \in [1..Cardinality(S) -> S] : \A i, j \in 1..Cardinality(S) : s[i] = s[j] => i = j}

----------------------------------------------------------------------------
(* internal/snapshot: manifest and archive *)

CommitA == <<"a">>
CommitB == <<"b">>
Commits == {CommitA, CommitB}

EmptyMap == [k \in {} |-> <<>>]
MapPut(m, k, v) == [x \in DOMAIN m \cup {k} |-> IF x = k THEN v ELSE m[x]]
MapDrop(m, K) == [x \in DOMAIN m \ K |-> m[x]]

\* The sequence s without the elements of K.
Without(s, K) == LET Kept(x) == x \notin K IN SelectSeq(s, Kept)

\* hex.EncodeToString(sha256 of the content): one digest per content.
Sha256(content) == <<"sha256", content>>

\* The Manifest json.Unmarshal fills from "{}": every field its zero value.
ZeroManifest ==
    [commit |-> <<>>, timestamp |-> -1, index |-> 0, files |-> EmptyMap, config |-> <<>>]

\* json.Marshal(manifest), and json.Unmarshal of an entry's bytes into a Manifest:
\* the bytes of a file of the working tree are JSON only when they are "{}".
Marshal(manifest) == <<"json", manifest>>
Unmarshal(body) ==
    IF body[1] = "json" THEN [ok |-> TRUE, manifest |-> body[2]]
    ELSE IF body[2] = "{}" THEN [ok |-> TRUE, manifest |-> ZeroManifest]
    ELSE [ok |-> FALSE, manifest |-> ZeroManifest]

Entry(name, body) == [name |-> name, body |-> body]

\* addFileToArchive: the header and the bytes of `path` appended to the tar
\* stream, the digest recorded in manifest.Files.
addFileToArchive(tw, path, manifest, tree) ==
    IF ~(path \in DOMAIN tree /\ IsFile(tree[path]) /\ StatOk(tree, path))
    THEN [err |-> TRUE, tw |-> tw, manifest |-> manifest]
    ELSE [err |-> FALSE,
          tw |-> Append(tw, Entry(path, <<"raw", tree[path][2]>>)),
          manifest |-> [manifest EXCEPT
                           !.files = MapPut(@, path, Sha256(tree[path][2]))]]

\* The loop of CreateSnapshot over the filtered files; it stops at the first error.
RECURSIVE AddFiles(_, _, _, _)
AddFiles(files, tree, tw, manifest) ==
    IF files = <<>> THEN [err |-> FALSE, tw |-> tw, manifest |-> manifest]
    ELSE LET r == addFileToArchive(tw, Head(files), manifest, tree)
         IN  IF r.err THEN r ELSE AddFiles(Tail(files), tree, r.tw, r.manifest)

\* readManifestFromSnapshot / ReadManifest: the first entry named manifest.json, decoded.
RECURSIVE ReadManifest(_)
ReadManifest(archive) ==
    IF archive = <<>> THEN [ok |-> FALSE, manifest |-> ZeroManifest]
    ELSE IF Head(archive).name = ManifestJson THEN Unmarshal(Head(archive).body)
    ELSE ReadManifest(Tail(archive))

----------------------------------------------------------------------------
(* internal/snapshot: the snapshots directory *)

\* filepath.Glob(".ignoregrets/snapshots/<commit>_*.tar.gz"): the matching names
\* of the directory, in the ascending order Glob sorts the directory's names in.
filepathGlob(dir, commit) ==
    SortStrings({f \in DOMAIN dir : Match(commit \o <<"_", "*">> \o TarGz, f)})

getNextIndex(dir, commit) == Len(filepathGlob(dir, commit))

\* findSnapshot: matches[index] of the zero-based slice; a negative index is
\* out of its range.
findSnapshot(dir, commit, index) ==
    LET matches == filepathGlob(dir, commit)
    IN  IF BadPattern(commit) THEN [err |-> "error", path |-> <<>>]
        ELSE IF Len(matches) = 0 THEN [err |-> "error", path |-> <<>>]
        ELSE IF index >= Len(matches) THEN [err |-> "error", path |-> <<>>]
        ELSE IF index < 0 THEN [err |-> "panic", path |-> <<>>]
        ELSE [err |-> "ok", path |-> matches[index + 1]]

----------------------------------------------------------------------------
(* The record of the last command. *)

NoReport == {}

Ran(op, err, commit, index, force, dryRun, retention, name, report) ==
    [op |-> op, err |-> err, commit |-> commit, index |-> index, force |-> force,
     dryRun |-> dryRun, retention |-> retention, name |-> name, report |-> report,
     prefs |-> fs, presnaps |-> snapshots, precreated |-> created]

----------------------------------------------------------------------------
(* ignoregrets snapshot *)

\* A faulty CreateSnapshot: the archive file is created before the filtered
\* file set is looked at.
SnapshotCreatesFirst(cap) ==
    /\ Cardinality(DOMAIN snapshots) < cap
    /\ LET current == GetCurrentCommit(head)
           commit == current.commit
           listed == GetIgnoredFiles(fs, gitIndex)
           files == filterFiles(listed.files, config)
       IN  IF current.err \/ listed.err
           THEN /\ last' = Ran("snapshot", "error", commit, 0, FALSE, FALSE, 0, <<>>, NoReport)
                /\ UNCHANGED <<snapshots, fs, now, head, config, gitIndex, running, created>>
           ELSE \E order \in Orderings(files) :
                LET manifest == [commit |-> commit, timestamp |-> now,
                                 index |-> getNextIndex(snapshots, commit),
                                 files |-> EmptyMap, config |-> <<config>>]
                    snapshotPath == SnapshotName(commit, manifest.timestamp, manifest.index)
                    added == AddFiles(order, fs, <<>>, manifest)
                    archive == IF added.err \/ files = {} THEN added.tw
                               ELSE Append(added.tw,
                                           Entry(ManifestJson, Marshal(added.manifest)))
                IN  /\ snapshots' = MapPut(snapshots, snapshotPath, archive)
                    /\ created' = Append(Without(created, {snapshotPath}), snapshotPath)
                    /\ last' = Ran("snapshot",
                                   IF added.err \/ files = {} THEN "error" ELSE "ok",
                                   commit, manifest.index, FALSE, FALSE, 0,
                                   snapshotPath, NoReport)
                    /\ UNCHANGED <<fs, now, head, config, gitIndex, running>>

\* CreateSnapshot(cfg), run while the directory holds fewer than `cap` archives.
Snapshot(cap) ==
    /\ Cardinality(DOMAIN snapshots) < cap
    /\ LET current == GetCurrentCommit(head)
           commit == current.commit
           listed == GetIgnoredFiles(fs, gitIndex)
           files == filterFiles(listed.files, config)
       IN  IF current.err \/ listed.err \/ files = {}
           THEN /\ last' = Ran("snapshot", "error", commit, 0, FALSE, FALSE, 0, <<>>, NoReport)
                /\ UNCHANGED <<snapshots, fs, now, head, config, gitIndex, running, created>>
           ELSE \E order \in Orderings(files) :
                LET manifest == [commit |-> commit, timestamp |-> now,
                                 index |-> getNextIndex(snapshots, commit),
                                 files |-> EmptyMap, config |-> <<config>>]
                    snapshotPath == SnapshotName(commit, manifest.timestamp, manifest.index)
                    added == AddFiles(order, fs, <<>>, manifest)
                    archive == IF added.err THEN added.tw
                               ELSE Append(added.tw,
                                           Entry(ManifestJson, Marshal(added.manifest)))
                IN  /\ snapshots' = MapPut(snapshots, snapshotPath, archive)
                    /\ created' = Append(Without(created, {snapshotPath}), snapshotPath)
                    /\ last' = Ran("snapshot", IF added.err THEN "error" ELSE "ok",
                                   commit, manifest.index, FALSE, FALSE, 0,
                                   snapshotPath, NoReport)
                    /\ UNCHANGED <<fs, now, head, config, gitIndex, running>>

CreateSnapshot == Snapshot(MaxSnapshots)

----------------------------------------------------------------------------
(* CreateSnapshot step by step, as concurrent processes run it. *)

Procs == 1..MaxProcs

\* A process that has not called CreateSnapshot yet.
NotStarted == [pc |-> "start", order |-> <<>>, manifest |-> ZeroManifest, path |-> <<>>]

NoProcess == [p \in Procs |-> NotStarted]

\* CreateSnapshot up to the name of the snapshot file: HEAD, the listed and
\* filtered files, the manifest with time.Now() and getNextIndex(commit).
Begin(p) ==
    /\ running[p].pc = "start"
    /\ LET current == GetCurrentCommit(head)
           commit == current.commit
           listed == GetIgnoredFiles(fs, gitIndex)
           files == filterFiles(listed.files, config)
       IN  IF current.err \/ listed.err \/ files = {}
           THEN /\ running' = [running EXCEPT ![p].pc = "failed"]
                /\ last' = Ran("snapshot", "error", commit, 0, FALSE, FALSE, 0, <<>>, {p})
           ELSE \E order \in Orderings(files) :
                LET manifest == [commit |-> commit, timestamp |-> now,
                                 index |-> getNextIndex(snapshots, commit),
                                 files |-> EmptyMap, config |-> <<config>>]
                    snapshotPath == SnapshotName(commit, manifest.timestamp, manifest.index)
                IN  /\ running' = [running EXCEPT ![p] =
                                      [pc |-> "prepared", order |-> order,
                                       manifest |-> manifest, path |-> snapshotPath]]
                    /\ last' = Ran("begin", "ok", commit, manifest.index, FALSE, FALSE, 0,
                                   snapshotPath, {p})
    /\ UNCHANGED <<snapshots, fs, now, head, config, gitIndex, created>>

\* A faulty creation: the file is opened exclusively, and a name that is taken
\* gives way to the name of the next free index.
CreateFileExclusive(p) ==
    /\ running[p].pc = "prepared"
    /\ LET manifest == running[p].manifest
           snapshotPath ==
               IF running[p].path \in DOMAIN snapshots
               THEN SnapshotName(manifest.commit, manifest.timestamp,
                                 getNextIndex(snapshots, manifest.commit))
               ELSE running[p].path
       IN  /\ snapshots' = MapPut(snapshots, snapshotPath, <<>>)
           /\ created' = Append(Without(created, {snapshotPath}), snapshotPath)
           /\ running' = [running EXCEPT ![p].pc = "created", ![p].path = snapshotPath]
           /\ last' = Ran("create", "ok", manifest.commit, manifest.index, FALSE, FALSE, 0,
                          snapshotPath, {p})
    /\ UNCHANGED <<fs, now, head, config, gitIndex>>

\* os.Create(snapshotPath): the file is created, or truncated when it exists.
CreateFile(p) ==
    /\ running[p].pc = "prepared"
    /\ LET manifest == running[p].manifest
           snapshotPath == running[p].path
       IN  /\ snapshots' = MapPut(snapshots, snapshotPath, <<>>)
           /\ created' = Append(Without(created, {snapshotPath}), snapshotPath)
           /\ running' = [running EXCEPT ![p].pc = "created"]
           /\ last' = Ran("create", "ok", manifest.commit, manifest.index, FALSE, FALSE, 0,
                          snapshotPath, {p})
    /\ UNCHANGED <<fs, now, head, config, gitIndex>>

\* The rest of CreateSnapshot: the files added as they are on disk now, then
\* the manifest; on an error of addFileToArchive the function returns, and the
\* deferred Close calls leave in the file what was written so far.  The bytes
\* go to the file of that name from its start.
WriteArchive(p) ==
    /\ running[p].pc = "created"
    /\ LET manifest == running[p].manifest
           snapshotPath == running[p].path
           added == AddFiles(running[p].order, fs, <<>>, manifest)
           archive == IF added.err THEN added.tw
                      ELSE Append(added.tw, Entry(ManifestJson, Marshal(added.manifest)))
       IN  /\ snapshots' = MapPut(snapshots, snapshotPath, archive)
           /\ running' = [running EXCEPT ![p].pc = IF added.err THEN "failed" ELSE "done"]
           /\ last' = Ran("snapshot", IF added.err THEN "error" ELSE "ok",
                          manifest.commit, manifest.index, FALSE, FALSE, 0,
                          snapshotPath, {p})
    /\ UNCHANGED <<fs, now, head, config, gitIndex, created>>

----------------------------------------------------------------------------
(* ignoregrets prune *)

\* The files of the directory prune groups under `commit`.
PruneGroup(dir, commit) ==
    {f \in DOMAIN dir : HasSuffix(f, TarGz) /\ HasTwoParts(f) /\ FirstPart(f) = commit}

\* A faulty order: the group sorted oldest first.
PruneOrderAscending(files) == SortStrings(files)

\* sort.Sort(sort.Reverse(sort.StringSlice(files)))
PruneOrder(files) == Reverse(SortStrings(files))

\* files[retention:] of one commit's sorted group: the files prune deletes.
PruneDoomed(dir, commit, retention) ==
    LET files == PruneOrder(PruneGroup(dir, commit))
    IN  IF Len(files) > retention
        THEN {files[i] : i \in (retention + 1)..Len(files)}
        ELSE {}

\* pruneCmd.RunE with --retention flag (0: the flag's default).
Prune(flag) ==
    LET retention == IF flag = 0 THEN config.Retention ELSE flag
    IN  IF retention < 1
        THEN /\ last' = Ran("prune", "error", <<>>, 0, FALSE, FALSE, flag, <<>>, NoReport)
             /\ UNCHANGED <<snapshots, fs, now, head, config, gitIndex, running, created>>
        ELSE LET commits == {FirstPart(f) : f \in {g \in DOMAIN snapshots :
                                 HasSuffix(g, TarGz) /\ HasTwoParts(g)}}
                 doomed == UNION {PruneDoomed(snapshots, c, retention) : c \in commits}
             IN  /\ snapshots' = MapDrop(snapshots, doomed)
                 /\ created' = Without(created, doomed)
                 /\ last' = Ran("prune", "ok", <<>>, 0, FALSE, FALSE, flag, <<>>, NoReport)
                 /\ UNCHANGED <<fs, now, head, config, gitIndex, running>>

----------------------------------------------------------------------------
(* The environment: the clock and the repository. *)

Tick ==
    /\ now < MaxMinute
    /\ now' = now + 1
    /\ UNCHANGED <<snapshots, fs, head, config, gitIndex, running, created, last>>

Checkout ==
    /\ \E c \in Commits \ {head} : head' = c
    /\ UNCHANGED <<snapshots, fs, now, config, gitIndex, running, created, last>>

----------------------------------------------------------------------------
(* The history of the snapshots directory: snapshot, prune, time, checkout. *)

\* A working tree with one untracked file.
TreeOneFile ==
    [p \in Nodes |-> IF p = DotEnv THEN File("x") ELSE Absent]

NotRun ==
    [op |-> "none", err |-> "ok", commit |-> <<>>, index |-> 0, force |-> FALSE,
     dryRun |-> FALSE, retention |-> 0, name |-> <<>>, report |-> NoReport,
     prefs |-> TreeOneFile, presnaps |-> EmptyMap, precreated |-> <<>>]

Init ==
    /\ snapshots = EmptyMap
    /\ fs = TreeOneFile
    /\ now = 0
    /\ head = CommitA
    /\ config = DefaultConfig
    /\ gitIndex = GitIndex({})
    /\ running = NoProcess
    /\ created = <<>>
    /\ last = NotRun

Next ==
    \/ CreateSnapshot
    \/ \E flag \in -1..MaxRetention : Prune(flag)
    \/ Tick
    \/ Checkout

Spec == Init /\ [][Next]_vars

----------------------------------------------------------------------------
(* ignoregrets restore *)

\* os.MkdirAll(dir): nothing to do for a directory, an error for a file in the
\* way, else the parents and then the directory itself.
RECURSIVE MkdirAll(_, _)
MkdirAll(tree, dir) ==
    IF IsDirectory(tree, dir) THEN [err |-> FALSE, tree |-> tree]
    ELSE IF StatOk(tree, dir) \/ dir \notin DOMAIN tree THEN [err |-> TRUE, tree |-> tree]
    ELSE LET parent == MkdirAll(tree, Dir(dir))
         IN  IF parent.err THEN parent
             ELSE [err |-> FALSE, tree |-> [parent.tree EXCEPT ![dir] = DirNode]]

\* os.OpenFile(name, O_WRONLY|O_CREATE|O_TRUNC) and io.Copy of the entry's bytes.
WriteFile(tree, name, body) ==
    IF name \notin DOMAIN tree \/ tree[name] = DirNode \/ ~IsDirectory(tree, Dir(name))
    THEN [err |-> TRUE, tree |-> tree]
    ELSE [err |-> FALSE, tree |-> [tree EXCEPT ![name] = File(body[2])]]

\* A faulty restoreFile: the branch that skips an existing file is missing.
restoreFileClobber(tree, hdr, dryRun, force) ==
    IF hdr.name = ManifestJson
    THEN [err |-> FALSE, tree |-> tree, report |-> NoReport]
    ELSE IF dryRun
    THEN [err |-> FALSE, tree |-> tree, report |-> {<<hdr.name, "restore">>}]
    ELSE LET made == MkdirAll(tree, Dir(hdr.name))
             written == WriteFile(made.tree, hdr.name, hdr.body)
         IN  IF made.err THEN [err |-> TRUE, tree |-> made.tree, report |-> NoReport]
             ELSE IF written.err
             THEN [err |-> TRUE, tree |-> written.tree, report |-> NoReport]
             ELSE [err |-> FALSE, tree |-> written.tree,
                   report |-> {<<hdr.name, "restore">>}]

\* A faulty restoreFile: an existing file is an error when --force is not given.
restoreFileFailsOnExisting(tree, hdr, dryRun, force) ==
    IF hdr.name = ManifestJson
    THEN [err |-> FALSE, tree |-> tree, report |-> NoReport]
    ELSE IF StatOk(tree, hdr.name) /\ ~force
    THEN [err |-> TRUE, tree |-> tree, report |-> NoReport]
    ELSE IF dryRun
    THEN [err |-> FALSE, tree |-> tree, report |-> {<<hdr.name, "restore">>}]
    ELSE LET made == MkdirAll(tree, Dir(hdr.name))
             written == WriteFile(made.tree, hdr.name, hdr.body)
         IN  IF made.err THEN [err |-> TRUE, tree |-> made.tree, report |-> NoReport]
             ELSE IF written.err
             THEN [err |-> TRUE, tree |-> written.tree, report |-> NoReport]
             ELSE [err |-> FALSE, tree |-> written.tree,
                   report |-> {<<hdr.name, "restore">>}]

\* A faulty restoreFile: --force takes precedence over --dry-run.
restoreFileDryUnlessForce(tree, hdr, dryRun, force) ==
    IF hdr.name = ManifestJson
    THEN [err |-> FALSE, tree |-> tree, report |-> NoReport]
    ELSE IF StatOk(tree, hdr.name) /\ ~force
    THEN [err |-> FALSE, tree |-> tree, report |-> {<<hdr.name, "skip">>}]
    ELSE IF dryRun /\ ~force
    THEN [err |-> FALSE, tree |-> tree, report |-> {<<hdr.name, "restore">>}]
    ELSE LET made == MkdirAll(tree, Dir(hdr.name))
             written == WriteFile(made.tree, hdr.name, hdr.body)
         IN  IF made.err THEN [err |-> TRUE, tree |-> made.tree, report |-> NoReport]
             ELSE IF written.err
             THEN [err |-> TRUE, tree |-> written.tree, report |-> NoReport]
             ELSE [err |-> FALSE, tree |-> written.tree,
                   report |-> {<<hdr.name, "restore">>}]

\* restoreFile: one tar entry; `report` is what it prints or does for the entry.
restoreFile(tree, hdr, dryRun, force) ==
    IF hdr.name = ManifestJson
    THEN [err |-> FALSE, tree |-> tree, report |-> NoReport]
    ELSE IF StatOk(tree, hdr.name) /\ ~force
    THEN [err |-> FALSE, tree |-> tree, report |-> {<<hdr.name, "skip">>}]
    ELSE IF dryRun
    THEN [err |-> FALSE, tree |-> tree, report |-> {<<hdr.name, "restore">>}]
    ELSE LET made == MkdirAll(tree, Dir(hdr.name))
             written == WriteFile(made.tree, hdr.name, hdr.body)
         IN  IF made.err THEN [err |-> TRUE, tree |-> made.tree, report |-> NoReport]
             ELSE IF written.err
             THEN [err |-> TRUE, tree |-> written.tree, report |-> NoReport]
             ELSE [err |-> FALSE, tree |-> written.tree,
                   report |-> {<<hdr.name, "restore">>}]

\* A faulty loop: when an entry fails, the files written for the entries
\* before it are taken back.
RECURSIVE RestoreEntriesRollback(_, _, _, _)
RestoreEntriesRollback(archive, tree, dryRun, force) ==
    IF archive = <<>> THEN [err |-> FALSE, tree |-> tree, report |-> NoReport]
    ELSE LET one == restoreFile(tree, Head(archive), dryRun, force)
         IN  IF one.err THEN [one EXCEPT !.tree = tree]
             ELSE LET rest == RestoreEntriesRollback(Tail(archive), one.tree,
                                                     dryRun, force)
                  IN  IF rest.err THEN [rest EXCEPT !.tree = tree]
                      ELSE [rest EXCEPT !.report = one.report \cup @]

\* The loop of RestoreSnapshot over the entries; it returns at the first error.
RECURSIVE RestoreEntries(_, _, _, _)
RestoreEntries(archive, tree, dryRun, force) ==
    IF archive = <<>> THEN [err |-> FALSE, tree |-> tree, report |-> NoReport]
    ELSE LET one == restoreFile(tree, Head(archive), dryRun, force)
         IN  IF one.err THEN one
             ELSE LET rest == RestoreEntries(Tail(archive), one.tree, dryRun, force)
                  IN  [rest EXCEPT !.report = one.report \cup @]

\* A faulty RestoreSnapshot: manifest.CommitHash is not compared with the commit.
RestoreSnapshotUnbound(commit, index, force, dryRun) ==
    LET found == findSnapshot(snapshots, commit, index)
        failed(err) ==
            /\ last' = Ran("restore", err, commit, index, force, dryRun, 0,
                           found.path, NoReport)
            /\ UNCHANGED <<snapshots, fs, now, head, config, gitIndex, running, created>>
    IN  IF found.err # "ok" THEN failed(found.err)
        ELSE LET archive == snapshots[found.path]
                 read == ReadManifest(archive)
                 done == RestoreEntries(archive, fs, dryRun, force)
             IN  IF ~read.ok THEN failed("error")
                 ELSE /\ fs' = done.tree
                      /\ last' = Ran("restore", IF done.err THEN "error" ELSE "ok",
                                     commit, index, force, dryRun, 0, found.path,
                                     done.report)
                      /\ UNCHANGED <<snapshots, now, head, config, gitIndex, running, created>>

\* A faulty RestoreSnapshot: the manifest is not read before the entries are restored.
RestoreSnapshotNoManifest(commit, index, force, dryRun) ==
    LET found == findSnapshot(snapshots, commit, index)
        failed(err) ==
            /\ last' = Ran("restore", err, commit, index, force, dryRun, 0,
                           found.path, NoReport)
            /\ UNCHANGED <<snapshots, fs, now, head, config, gitIndex, running, created>>
    IN  IF found.err # "ok" THEN failed(found.err)
        ELSE LET archive == snapshots[found.path]
                 done == RestoreEntries(archive, fs, dryRun, force)
             IN  /\ fs' = done.tree
                 /\ last' = Ran("restore", IF done.err THEN "error" ELSE "ok",
                                commit, index, force, dryRun, 0, found.path,
                                done.report)
                 /\ UNCHANGED <<snapshots, now, head, config, gitIndex, running, created>>

\* RestoreSnapshot(commit, index, force, dryRun)
RestoreSnapshot(commit, index, force, dryRun) ==
    LET found == findSnapshot(snapshots, commit, index)
        failed(err) ==
            /\ last' = Ran("restore", err, commit, index, force, dryRun, 0,
                           found.path, NoReport)
            /\ UNCHANGED <<snapshots, fs, now, head, config, gitIndex, running, created>>
    IN  IF found.err # "ok" THEN failed(found.err)
        ELSE LET archive == snapshots[found.path]
                 read == ReadManifest(archive)
                 done == RestoreEntries(archive, fs, dryRun, force)
             IN  IF ~read.ok THEN failed("error")
                 ELSE IF read.manifest.commit # commit THEN failed("error")
                 ELSE /\ fs' = done.tree
                      /\ last' = Ran("restore", IF done.err THEN "error" ELSE "ok",
                                     commit, index, force, dryRun, 0, found.path,
                                     done.report)
                      /\ UNCHANGED <<snapshots, now, head, config, gitIndex, running, created>>

\* The values --commit takes: the checked-out commit id, or any other string,
\* such as that id followed by a time stamp.
RequestedCommits == {head, head \o <<"_">> \o FormatTime(now)}

Restore ==
    \E commit \in RequestedCommits, index \in 0..MaxArchives,
       force \in BOOLEAN, dryRun \in BOOLEAN :
        RestoreSnapshot(commit, index, force, dryRun)

----------------------------------------------------------------------------
(* Restoring into a working tree that changes: snapshot, edit, restore. *)

Contents == {"x", "y"}

NodeValues == {Absent, DirNode} \cup {File(c) : c \in Contents \cup {"{}"}}

\* The working trees explored: .env with either content, build as a file or
\* as a directory with or without build/out, manifest.json holding "{}".
TreeOk(t) ==
    /\ WellFormed(t)
    /\ t[DotEnv] \in {Absent} \cup {File(c) : c \in Contents}
    /\ t[Build] \in {Absent, DirNode, File("x")}
    /\ t[BuildOut] \in {Absent, File("x")}
    /\ t[ManifestJson] \in {Absent, File("{}")}

Trees == {t \in [Nodes -> NodeValues] : TreeOk(t)}

\* The user creates, changes or removes one file or directory between two commands.
Edit ==
    /\ \E p \in Nodes, v \in NodeValues :
           /\ v # fs[p]
           /\ TreeOk([fs EXCEPT ![p] = v])
           /\ fs' = [fs EXCEPT ![p] = v]
    /\ last' = Ran("edit", "ok", <<>>, 0, FALSE, FALSE, 0, <<>>, NoReport)
    /\ UNCHANGED <<snapshots, now, head, config, gitIndex, running, created>>

SnapshotForRestore == Snapshot(MaxArchives)

InitRestore ==
    /\ snapshots = EmptyMap
    /\ fs \in Trees
    /\ now = 0
    /\ head = CommitA
    /\ config = DefaultConfig
    /\ gitIndex = GitIndex({})
    /\ running = NoProcess
    /\ created = <<>>
    /\ last = NotRun

NextRestore ==
    \/ SnapshotForRestore
    \/ Edit
    \/ Restore

SpecRestore == InitRestore /\ [][NextRestore]_vars

----------------------------------------------------------------------------
(* Many snapshots of one commit: the file names the writer assigns. *)

SnapshotForName == Snapshot(MaxNameIndex + 1)

NextName ==
    \/ SnapshotForName
    \/ Tick

SpecName == Init /\ [][NextName]_vars

----------------------------------------------------------------------------
(* The file filter on its own: filterFiles over candidate lists and patterns. *)

\* The patterns of the configurations explored: everything, the literal .env,
\* names that begin with b, and a pattern filepath.Match rejects.
Patterns == {<<"*">>, DotEnv, <<"b", "*">>, <<"[">>}

PatternLists == UNION {[1..k -> Patterns] : k \in 0..MaxPatterns}

Configs ==
    {[DefaultConfig EXCEPT !.Exclude = e, !.Include = i] : e, i \in PatternLists}

CandidatePaths == {DotEnv, Build, BuildOut}

CandidateLists == UNION {[1..k -> CandidatePaths] : k \in 0..MaxCandidates}

\* filterFiles(files, cfg) called with the configuration in effect; `result`
\* is the slice it returns.
FilterFiles ==
    /\ last.op = "none"    \* CreateSnapshot calls filterFiles once
    /\ \E files \in CandidateLists :
         \E result \in Orderings(filterFiles(files, config)) :
            last' = [op |-> "filter", err |-> "ok", commit |-> <<>>, index |-> 0,
                     force |-> FALSE, dryRun |-> FALSE, retention |-> 0, name |-> <<>>,
                     report |-> NoReport, prefs |-> fs, presnaps |-> snapshots,
                     precreated |-> created, files |-> files, result |-> result]
    /\ UNCHANGED <<snapshots, fs, now, head, config, gitIndex, running, created>>

InitFilter ==
    /\ snapshots = EmptyMap
    /\ fs = TreeOneFile
    /\ now = 0
    /\ head = CommitA
    /\ config \in Configs
    /\ gitIndex = GitIndex({})
    /\ running = NoProcess
    /\ created = <<>>
    /\ last = NotRun

NextFilter == FilterFiles

SpecFilter == InitFilter /\ [][NextFilter]_vars

----------------------------------------------------------------------------
(* Snapshots of a repository: its HEAD, its index, its patterns, its tree. *)

\* A repository without a commit, or with one checked out.
Heads == {NoHead, CommitA}

\* Nothing tracked, .env tracked, or an index git cannot read.
GitIndexes == {GitIndex({}), GitIndex({DotEnv}), UnreadableIndex}

SnapshotOfRepository == Snapshot(MaxArchives)

InitRepository ==
    /\ snapshots = EmptyMap
    /\ fs \in {t \in Trees : t[ManifestJson] = Absent}
    /\ now = 0
    /\ head \in Heads
    /\ config \in Configs
    /\ gitIndex \in GitIndexes
    /\ running = NoProcess
    /\ created = <<>>
    /\ last = NotRun

NextRepository ==
    \/ SnapshotOfRepository
    \/ Checkout

SpecRepository == InitRepository /\ [][NextRepository]_vars

----------------------------------------------------------------------------
(* Restoring from archives that changed on disk, with any --snapshot index. *)

\* The bytes of an archive file change after it was written: a data entry's
\* content, the manifest entry's bytes, or a tail of the file that is lost.
Damage ==
    /\ \E f \in DOMAIN snapshots :
         \E i \in 1..Len(snapshots[f]) :
            LET e == snapshots[f][i]
            IN  \/ /\ e.body[1] = "raw"
                   /\ \E c \in Contents \ {e.body[2]} :
                        snapshots' = [snapshots EXCEPT ![f][i].body = <<"raw", c>>]
                \/ /\ e.body[1] = "json"
                   /\ snapshots' = [snapshots EXCEPT ![f][i].body = <<"raw", "x">>]
                \/ /\ i = Len(snapshots[f])
                   /\ snapshots' = [snapshots EXCEPT ![f] = SubSeq(@, 1, i - 1)]
    /\ last' = Ran("damage", "ok", <<>>, 0, FALSE, FALSE, 0, <<>>, NoReport)
    /\ UNCHANGED <<fs, now, head, config, gitIndex, running, created>>

\* The user deletes a file of the working tree.
DeleteFile ==
    /\ \E p \in Nodes :
         /\ IsFile(fs[p])
         /\ fs' = [fs EXCEPT ![p] = Absent]
    /\ last' = Ran("delete", "ok", <<>>, 0, FALSE, FALSE, 0, <<>>, NoReport)
    /\ UNCHANGED <<snapshots, now, head, config, gitIndex, running, created>>

SnapshotForDamage == Snapshot(MaxArchives)

\* ignoregrets restore --snapshot n, without --commit: the commit is the one
\* checked out, and the flag takes any integer.
RestoreAnyIndex ==
    \E index \in -1..MaxArchives, force \in BOOLEAN, dryRun \in BOOLEAN :
        RestoreSnapshot(GetCurrentCommit(head).commit, index, force, dryRun)

NextDamaged ==
    \/ SnapshotForDamage
    \/ Damage
    \/ DeleteFile
    \/ RestoreAnyIndex

SpecDamaged == Init /\ [][NextDamaged]_vars

----------------------------------------------------------------------------
(* The history of the snapshots directory, the tool's own directory in view. *)

DotIgnoregrets == <<".", "i", "g", "n", "o", "r", "e", "g", "r", "e", "t", "s">>
ConfigYaml == DotIgnoregrets \o <<"/", "c", "o", "n", "f", "i", "g", ".", "y", "a", "m", "l">>

\* A working tree whose only untracked file is the one initConfig and
\* LoadConfig create, .ignoregrets/config.yaml: git lists it like any other.
TreeWithStorage ==
    [p \in Nodes \cup {DotIgnoregrets, ConfigYaml} |->
        IF p = DotIgnoregrets THEN DirNode
        ELSE IF p = ConfigYaml THEN File("yaml")
        ELSE Absent]

InitStorage ==
    /\ snapshots = EmptyMap
    /\ fs = TreeWithStorage
    /\ now = 0
    /\ head = CommitA
    /\ config = DefaultConfig
    /\ gitIndex = GitIndex({})
    /\ running = NoProcess
    /\ created = <<>>
    /\ last = NotRun

SpecStorage == InitStorage /\ [][Next]_vars

----------------------------------------------------------------------------
(* ignoregrets list, inspect, status: the commands that only read. *)

\* The snapshotInfo list collects for one archive, and the number its line
\* prints before "files": len(s.path), where path is file.Name().
ListLine(name, manifest) ==
    [path |-> name, commit |-> manifest.commit, index |-> manifest.index,
     timestamp |-> manifest.timestamp, files |-> Len(name)]

\* listCmd.RunE: one line for every *.tar.gz of the directory whose manifest
\* can be read; an archive whose manifest cannot is warned about and skipped.
List ==
    /\ last' = Ran("list", "ok", <<>>, 0, FALSE, FALSE, 0, <<>>,
                   {ListLine(f, ReadManifest(snapshots[f]).manifest) :
                       f \in {g \in DOMAIN snapshots :
                                 HasSuffix(g, TarGz) /\ ReadManifest(snapshots[g]).ok}})
    /\ UNCHANGED <<snapshots, fs, now, head, config, gitIndex, running, created>>

\* The selector of inspect: the matches sorted descending, then
\* matches[snapIndex]; a negative index is out of the slice's range.
inspectSelect(dir, commit, snapIndex) ==
    LET matches == Reverse(filepathGlob(dir, commit))
    IN  IF BadPattern(commit) THEN [err |-> "error", path |-> <<>>]
        ELSE IF Len(matches) = 0 THEN [err |-> "error", path |-> <<>>]
        ELSE IF snapIndex >= Len(matches) THEN [err |-> "error", path |-> <<>>]
        ELSE IF snapIndex < 0 THEN [err |-> "panic", path |-> <<>>]
        ELSE [err |-> "ok", path |-> matches[snapIndex + 1]]

\* inspectCmd.RunE with --commit (empty: HEAD) and --snapshot; the report is
\* the manifest it displays.
Inspect ==
    \E flag \in {<<>>} \cup Commits, snapIndex \in -1..MaxSnapshots :
        LET current == GetCurrentCommit(head)
            commitHash == IF flag = <<>> THEN current.commit ELSE flag
            found == inspectSelect(snapshots, commitHash, snapIndex)
            read == IF found.err = "ok" THEN ReadManifest(snapshots[found.path])
                    ELSE [ok |-> FALSE, manifest |-> ZeroManifest]
        IN  /\ last' =
                 IF flag = <<>> /\ current.err
                 THEN Ran("inspect", "error", commitHash, snapIndex, FALSE, FALSE, 0,
                          <<>>, NoReport)
                 ELSE IF found.err # "ok"
                 THEN Ran("inspect", found.err, commitHash, snapIndex, FALSE, FALSE, 0,
                          <<>>, NoReport)
                 ELSE IF ~read.ok
                 THEN Ran("inspect", "error", commitHash, snapIndex, FALSE, FALSE, 0,
                          found.path, NoReport)
                 ELSE Ran("inspect", "ok", commitHash, snapIndex, FALSE, FALSE, 0,
                          found.path, {read.manifest})
            /\ UNCHANGED <<snapshots, fs, now, head, config, gitIndex, running, created>>

\* findLatestSnapshot: matches[0] of the matches sorted descending, and its manifest.
findLatestSnapshot(dir, commit) ==
    LET matches == Reverse(filepathGlob(dir, commit))
    IN  IF BadPattern(commit) \/ Len(matches) = 0
        THEN [err |-> TRUE, path |-> <<>>, manifest |-> ZeroManifest]
        ELSE LET read == ReadManifest(dir[matches[1]])
             IN  [err |-> ~read.ok, path |-> matches[1], manifest |-> read.manifest]

\* calculateChecksum: the digest of the bytes of a file that can be read.
calculateChecksum(tree, path) ==
    IF path \in DOMAIN tree /\ IsFile(tree[path]) /\ StatOk(tree, path)
    THEN [err |-> FALSE, sum |-> Sha256(tree[path][2])]
    ELSE [err |-> TRUE, sum |-> <<>>]

\* sort.Strings of a slice.
RECURSIVE SortSlice(_)
SortSlice(s) ==
    IF s = <<>> THEN <<>>
    ELSE LET Smaller(x) == StrLess(x, Head(s))
             NotSmaller(x) == ~StrLess(x, Head(s))
         IN  SortSlice(SelectSeq(Tail(s), Smaller)) \o <<Head(s)>>
                 \o SortSlice(SelectSeq(Tail(s), NotSmaller))

NoLists == [unchanged |-> <<>>, modified |-> <<>>, added |-> <<>>, deleted |-> <<>>]

\* One iteration of status's loop over snapshot.Files: `file` goes to one list.
compareStep(file, snapshotFiles, currentChecksums, lists) ==
    IF file \notin DOMAIN currentChecksums
    THEN [lists EXCEPT !.deleted = Append(@, file)]
    ELSE IF currentChecksums[file] # snapshotFiles[file]
    THEN [lists EXCEPT !.modified = Append(@, file)]
    ELSE [lists EXCEPT !.unchanged = Append(@, file)]

\* The loop in the order `order` the map is ranged over; each iteration ends
\* with delete(currentChecksums, file).
RECURSIVE compareLoop(_, _, _, _)
compareLoop(order, snapshotFiles, currentChecksums, lists) ==
    IF order = <<>> THEN [lists |-> lists, currentChecksums |-> currentChecksums]
    ELSE compareLoop(Tail(order), snapshotFiles,
                     MapDrop(currentChecksums, {Head(order)}),
                     compareStep(Head(order), snapshotFiles, currentChecksums, lists))

\* A faulty comparison: the new files are taken from the map as it was built,
\* the matched keys still in it.
CompareFilesKeepsMatched(order, snapshotFiles, currentChecksums) ==
    LET r == compareLoop(order, snapshotFiles, currentChecksums, NoLists)
    IN  [unchanged |-> SortSlice(r.lists.unchanged),
         modified |-> SortSlice(r.lists.modified),
         added |-> SortStrings(DOMAIN currentChecksums),
         deleted |-> SortSlice(r.lists.deleted)]

\* The four lists of status: the loop, the keys left in currentChecksums as
\* the new files, every list sorted.
CompareFiles(order, snapshotFiles, currentChecksums) ==
    LET r == compareLoop(order, snapshotFiles, currentChecksums, NoLists)
    IN  [unchanged |-> SortSlice(r.lists.unchanged),
         modified |-> SortSlice(r.lists.modified),
         added |-> SortStrings(DOMAIN r.currentChecksums),
         deleted |-> SortSlice(r.lists.deleted)]

\* statusCmd.RunE: HEAD, the files git lists, the latest snapshot of HEAD's
\* commit, the checksums of the listed files, the comparison.  The record
\* keeps the command that ran before it.
Status ==
    LET current == GetCurrentCommit(head)
        commit == current.commit
        listed == GetIgnoredFiles(fs, gitIndex)
        currentFiles == {listed.files[i] : i \in 1..Len(listed.files)}
        latest == findLatestSnapshot(snapshots, commit)
        failed == \/ current.err \/ listed.err \/ latest.err
                  \/ \E f \in currentFiles : calculateChecksum(fs, f).err
        currentChecksums == [f \in currentFiles |-> calculateChecksum(fs, f).sum]
        Done(err, name, report) ==
            [op |-> "status", err |-> err, commit |-> commit, index |-> 0,
             force |-> FALSE, dryRun |-> FALSE, retention |-> 0, name |-> name,
             report |-> report, prefs |-> fs, presnaps |-> snapshots,
             precreated |-> created,
             previous |-> [op |-> last.op, err |-> last.err, name |-> last.name]]
    IN  /\ IF failed
           THEN last' = Done("error", <<>>, NoReport)
           ELSE \E order \in Orderings(DOMAIN latest.manifest.files) :
                    last' = Done("ok", latest.path,
                                 {CompareFiles(order, latest.manifest.files,
                                               currentChecksums)})
        /\ UNCHANGED <<snapshots, fs, now, head, config, gitIndex, running, created>>

\* Snapshot, time and checkout, with the reading commands in between.
NextCommands ==
    \/ CreateSnapshot
    \/ Tick
    \/ Checkout
    \/ List
    \/ Inspect
    \/ Status

SpecCommands == Init /\ [][NextCommands]_vars

----------------------------------------------------------------------------
(* Status against a working tree that changes: snapshot, edit, status. *)

\* The working trees explored: .env and build, each absent or a file with
\* either content.
StatusTrees ==
    {t \in [Nodes -> NodeValues] :
        /\ t[DotEnv] \in {Absent} \cup {File(c) : c \in Contents}
        /\ t[Build] \in {Absent} \cup {File(c) : c \in Contents}
        /\ t[BuildOut] = Absent
        /\ t[ManifestJson] = Absent}

\* The configurations explored: no pattern, and .env excluded.
StatusConfigs ==
    {DefaultConfig, [DefaultConfig EXCEPT !.Exclude = <<DotEnv>>]}

\* The user creates, changes or removes .env or build between two commands.
EditFile ==
    /\ \E t \in StatusTrees :
         /\ Cardinality({p \in Nodes : t[p] # fs[p]}) = 1
         /\ fs' = t
    /\ last' = Ran("edit", "ok", <<>>, 0, FALSE, FALSE, 0, <<>>, NoReport)
    /\ UNCHANGED <<snapshots, now, head, config, gitIndex, running, created>>

SnapshotForStatus == Snapshot(MaxArchives)

InitStatus ==
    /\ snapshots = EmptyMap
    /\ fs \in StatusTrees
    /\ now = 0
    /\ head = CommitA
    /\ config \in StatusConfigs
    /\ gitIndex = GitIndex({})
    /\ running = NoProcess
    /\ created = <<>>
    /\ last = NotRun

NextStatus ==
    \/ SnapshotForStatus
    \/ EditFile
    \/ Status

SpecStatus == InitStatus /\ [][NextStatus]_vars

----------------------------------------------------------------------------
(* internal/config: SaveConfig and LoadConfig over .ignoregrets/config.yaml. *)

\* The value of a decimal digit, and strconv's reading of a decimal integer.
DigitValue(c) == CHOOSE d \in 0..9 : Digit(d) = c

RECURSIVE ParseDigits(_, _)
ParseDigits(s, acc) ==
    IF s = <<>> THEN acc ELSE ParseDigits(Tail(s), 10 * acc + DigitValue(Head(s)))

\* yaml's scalar of an int, and the int of such a scalar.
YamlInt(n) == IF n < 0 THEN <<"-">> \o Itoa(0 - n) ELSE Itoa(n)
ParseInt(s) == IF Head(s) = "-" THEN 0 - ParseDigits(Tail(s), 0) ELSE ParseDigits(s, 0)

\* yaml's scalar of a bool, and the bool of such a scalar.
YamlBool(b) == IF b THEN <<"t", "r", "u", "e">> ELSE <<"f", "a", "l", "s", "e">>
ParseBool(s) == s = <<"t", "r", "u", "e">>

\* yaml.Marshal writes a string in single quotes when its plain form would
\* not be read back as that string: the empty string, and a string that
\* begins with an indicator character (* is an alias, [ opens a sequence).
NeedsQuote(str) == str = <<>> \/ Head(str) \in {"*", "[", "'"}
YamlString(str) == IF NeedsQuote(str) THEN <<"'">> \o str \o <<"'">> ELSE str

\* yaml.Unmarshal of a scalar into a string: the text between the quotes of a
\* quoted scalar, the text of a plain one; an alias or an open sequence does
\* not parse.
ParseString(scalar) ==
    IF scalar # <<>> /\ Head(scalar) = "'"
    THEN [err |-> FALSE, str |-> SubSeq(scalar, 2, Len(scalar) - 1)]
    ELSE IF scalar = <<>> \/ Head(scalar) \in {"*", "["}
    THEN [err |-> TRUE, str |-> <<>>]
    ELSE [err |-> FALSE, str |-> scalar]

\* The event names are single words: the word as a string of the document.
EventString(event) == <<event>>
ParseEvent(scalar) == scalar[1]

\* yaml.Marshal(cfg): the document, one key per field of Config.
yamlMarshal(cfg) ==
    [retention |-> YamlInt(cfg.Retention),
     snapshot_on |-> [i \in 1..Len(cfg.SnapshotOn) |-> YamlString(EventString(cfg.SnapshotOn[i]))],
     restore_on |-> [i \in 1..Len(cfg.RestoreOn) |-> YamlString(EventString(cfg.RestoreOn[i]))],
     hooks_enabled |-> YamlBool(cfg.HooksEnabled),
     exclude |-> [i \in 1..Len(cfg.Exclude) |-> YamlString(cfg.Exclude[i])],
     include |-> [i \in 1..Len(cfg.Include) |-> YamlString(cfg.Include[i])]]

\* yaml.Unmarshal(data, cfg): the fields decoded from the document's keys.
yamlUnmarshal(doc) ==
    LET Strings(list) == [i \in 1..Len(list) |-> ParseString(list[i]).str]
        Bad(list) == \E i \in 1..Len(list) : ParseString(list[i]).err
    IN  IF Bad(doc.snapshot_on) \/ Bad(doc.restore_on) \/ Bad(doc.exclude) \/ Bad(doc.include)
        THEN [err |-> TRUE, cfg |-> DefaultConfig]
        ELSE [err |-> FALSE,
              cfg |-> [Retention |-> ParseInt(doc.retention),
                       SnapshotOn |-> [i \in 1..Len(doc.snapshot_on) |->
                                          ParseEvent(Strings(doc.snapshot_on)[i])],
                       RestoreOn |-> [i \in 1..Len(doc.restore_on) |->
                                         ParseEvent(Strings(doc.restore_on)[i])],
                       HooksEnabled |-> ParseBool(doc.hooks_enabled),
                       Exclude |-> Strings(doc.exclude),
                       Include |-> Strings(doc.include)]]

\* SaveConfig(cfg): the marshalled document written to config.yaml.
SaveConfigTo(tree, cfg) == WriteFile(tree, ConfigYaml, <<"raw", yamlMarshal(cfg)>>)

\* A faulty LoadConfig: the parsed fields are returned as they are.
LoadConfigNoDefaults(tree) ==
    IF ~StatOk(tree, ConfigYaml)
    THEN LET saved == SaveConfigTo(tree, DefaultConfig)
         IN  [err |-> saved.err, cfg |-> DefaultConfig, tree |-> saved.tree]
    ELSE IF ~IsFile(tree[ConfigYaml])
    THEN [err |-> TRUE, cfg |-> DefaultConfig, tree |-> tree]
    ELSE LET parsed == yamlUnmarshal(tree[ConfigYaml][2])
         IN  [err |-> parsed.err, cfg |-> parsed.cfg, tree |-> tree]

\* LoadConfig: the defaults written and returned when config.yaml does not
\* exist; else the file parsed, and the defaults put in place of a retention
\* <= 0 and of an empty snapshot_on or restore_on.
LoadConfigFrom(tree) ==
    IF ~StatOk(tree, ConfigYaml)
    THEN LET saved == SaveConfigTo(tree, DefaultConfig)
         IN  [err |-> saved.err, cfg |-> DefaultConfig, tree |-> saved.tree]
    ELSE IF ~IsFile(tree[ConfigYaml])
    THEN [err |-> TRUE, cfg |-> DefaultConfig, tree |-> tree]
    ELSE LET parsed == yamlUnmarshal(tree[ConfigYaml][2])
             cfg == parsed.cfg
         IN  [err |-> parsed.err,
              cfg |-> [cfg EXCEPT
                          !.Retention = IF @ <= 0 THEN DefaultConfig.Retention ELSE @,
                          !.SnapshotOn = IF Len(@) = 0 THEN DefaultConfig.SnapshotOn ELSE @,
                          !.RestoreOn = IF Len(@) = 0 THEN DefaultConfig.RestoreOn ELSE @],
              tree |-> tree]

\* The record of a SaveConfig or LoadConfig call: the configuration in memory
\* before it, and the call that ran before it.
ConfigCall(op, err) ==
    [op |-> op, err |-> err, commit |-> <<>>, index |-> 0, force |-> FALSE,
     dryRun |-> FALSE, retention |-> 0, name |-> <<>>, report |-> NoReport,
     prefs |-> fs, presnaps |-> snapshots, precreated |-> created,
     preconfig |-> config, previous |-> [op |-> last.op, err |-> last.err]]

\* SaveConfig(cfg) with the configuration in memory.
SaveConfig ==
    /\ last.op # "save"
    /\ LET saved == SaveConfigTo(fs, config)
       IN  /\ fs' = saved.tree
           /\ last' = ConfigCall("save", IF saved.err THEN "error" ELSE "ok")
    /\ UNCHANGED <<snapshots, now, head, config, gitIndex, running, created>>

\* cfg, err := LoadConfig(): the configuration in memory is the one returned.
LoadConfig ==
    /\ LET loaded == LoadConfigFrom(fs)
       IN  /\ fs' = loaded.tree
           /\ config' = IF loaded.err THEN config ELSE loaded.cfg
           /\ last' = ConfigCall("load", IF loaded.err THEN "error" ELSE "ok")
    /\ UNCHANGED <<snapshots, now, head, gitIndex, running, created>>

\* The configurations handed to SaveConfig: any retention around the limit,
\* event lists empty or not, patterns of every kind.
EventLists == {<<>>, <<"commit">>, <<"commit", "checkout">>, <<"checkout">>}

SavedConfigs ==
    {[Retention |-> r, SnapshotOn |-> s, RestoreOn |-> t, HooksEnabled |-> h,
      Exclude |-> e, Include |-> i] :
        r \in (-1..MaxRetention) \cup {DefaultRetention},
        s \in EventLists, t \in {<<>>, <<"checkout">>},
        h \in BOOLEAN, e \in PatternLists, i \in {<<>>, <<DotEnv>>}}

\* The tool's directory before config.yaml is written.
TreeWithoutConfig == [TreeWithStorage EXCEPT ![ConfigYaml] = Absent]

InitConfig ==
    /\ snapshots = EmptyMap
    /\ fs = TreeWithoutConfig
    /\ now = 0
    /\ head = CommitA
    /\ config \in SavedConfigs
    /\ gitIndex = GitIndex({})
    /\ running = NoProcess
    /\ created = <<>>
    /\ last = NotRun

NextConfig ==
    \/ SaveConfig
    \/ LoadConfig

SpecConfig == InitConfig /\ [][NextConfig]_vars

----------------------------------------------------------------------------
(* Processes that snapshot at the same time, in a tree that loses files. *)

NextRace ==
    \/ \E p \in Procs : Begin(p)
    \/ \E p \in Procs : CreateFile(p)
    \/ \E p \in Procs : WriteArchive(p)
    \/ Tick
    \/ DeleteFile

SpecRace == Init /\ [][NextRace]_vars

----------------------------------------------------------------------------
(* What the claims speak of. *)

HasPrefix(s, p) == Len(s) >= Len(p) /\ SubSeq(s, 1, Len(p)) = p

\* The archive files of a commit: <commit>_ ... .tar.gz
ArchivesOf(dir, commit) ==
    {f \in DOMAIN dir : HasPrefix(f, commit \o <<"_">>) /\ HasSuffix(f, TarGz)}

\* The n lexicographically greatest names of S.
Greatest(S, n) == {f \in S : Cardinality({g \in S : StrLess(f, g)}) < n}

\* The manifest an archive was closed with: its trailing entry, decoded.
WrittenManifest(archive) == Unmarshal(archive[Len(archive)].body).manifest

\* The index token of an archive's file name: between the last "_" and ".tar.gz".
IndexToken(f) ==
    LET u == CHOOSE i \in 1..Len(f) : f[i] = "_" /\ \A j \in (i + 1)..Len(f) : f[j] # "_"
    IN  SubSeq(f, u + 1, Len(f) - Len(TarGz))

\* The retention count a prune command ran with.
EffectiveRetention == IF last.retention = 0 THEN config.Retention ELSE last.retention

\* The names of the data entries of an archive (all but the trailing entry).
DataNames(archive) == {archive[i].name : i \in 1..(Len(archive) - 1)}

----------------------------------------------------------------------------
(* Claims checked under SpecRestore. *)

\* C1 (no-clobber): after RestoreSnapshot with force = false, dry run or not,
\* successful or not, every path that existed before the call holds what it held.
C1_NoClobber ==
    (last.op = "restore" /\ ~last.force) =>
        \A p \in Nodes : last.prefs[p] # Absent => fs[p] = last.prefs[p]

\* A non-forced, non-dry restore that skipped an existing file whose content
\* differs from the archived one, and wrote another file.
C1_Witness ==
    /\ last.op = "restore" /\ ~last.force /\ ~last.dryRun /\ last.err = "ok"
    /\ \E i \in 1..(Len(snapshots[last.name]) - 1) :
         LET e == snapshots[last.name][i]
         IN  /\ <<e.name, "skip">> \in last.report
             /\ last.prefs[e.name] # File(e.body[2])
    /\ \E p \in Nodes : last.prefs[p] = Absent /\ IsFile(fs[p])

\* C2 (commit binding): when the manifest RestoreSnapshot reads from the selected
\* archive names another commit than the requested one, the call fails and the
\* working tree is what it was, whatever force and dryRun are.
C2_CommitBinding ==
    (/\ last.op = "restore"
     /\ last.name \in DOMAIN last.presnaps
     /\ ReadManifest(last.presnaps[last.name]).ok
     /\ ReadManifest(last.presnaps[last.name]).manifest.commit # last.commit)
    => (last.err = "error" /\ fs = last.prefs /\ snapshots = last.presnaps)

\* A forced, non-dry restore of a commit's archive requested under another
\* identifier, with an entry whose destination does not exist.
C2_Witness ==
    /\ last.op = "restore" /\ last.force /\ ~last.dryRun
    /\ last.name \in DOMAIN last.presnaps
    /\ ReadManifest(last.presnaps[last.name]).ok
    /\ ReadManifest(last.presnaps[last.name]).manifest.commit \in Commits \ {last.commit}
    /\ \E p \in DataNames(last.presnaps[last.name]) : last.prefs[p] = Absent

\* C3 (dry-run purity): RestoreSnapshot with dryRun = true leaves the working tree
\* and the snapshots directory as they were, for either value of force.
C3_DryRunPure ==
    (last.op = "restore" /\ last.dryRun) =>
        (fs = last.prefs /\ snapshots = last.presnaps)

\* A forced dry run that reports a restore of a file that exists with another
\* content, and of a file in a directory that does not exist.
C3_Witness ==
    /\ last.op = "restore" /\ last.dryRun /\ last.force /\ last.err = "ok"
    /\ \E i \in 1..(Len(snapshots[last.name]) - 1) :
         LET e == snapshots[last.name][i]
         IN  /\ <<e.name, "restore">> \in last.report
             /\ IsFile(last.prefs[e.name])
             /\ last.prefs[e.name] # File(e.body[2])
    /\ <<BuildOut, "restore">> \in last.report
    /\ last.prefs[Build] = Absent

\* C8 (archive / manifest invariant): an archive a successful CreateSnapshot wrote
\* holds exactly one entry named manifest.json, as its last entry; the keys of
\* manifest.files are the names of the data entries, each naming exactly one
\* entry, and manifest.json is not a key.
C8_ArchiveInvariant ==
    (last.op = "snapshot" /\ last.err = "ok") =>
        LET archive == snapshots[last.name]
            keys == DOMAIN WrittenManifest(archive).files
        IN  /\ Cardinality({i \in 1..Len(archive) : archive[i].name = ManifestJson}) = 1
            /\ archive[Len(archive)].name = ManifestJson
            /\ keys = DataNames(archive)
            /\ \A k \in keys :
                 Cardinality({i \in 1..Len(archive) : archive[i].name = k}) = 1
            /\ ManifestJson \notin keys

\* C9 (manifest round trip): ReadManifest on an archive CreateSnapshot wrote from
\* the files F succeeds with the written commit and index, and a files map whose
\* keys are the paths of F, each with the digest of the file's content.
C9_ManifestRoundTrip ==
    (last.op = "snapshot" /\ last.err = "ok") =>
        LET read == ReadManifest(snapshots[last.name])
            F == filterFiles(GetIgnoredFiles(last.prefs, gitIndex).files, config)
        IN  /\ read.ok
            /\ read.manifest.commit = last.commit
            /\ read.manifest.index = last.index
            /\ DOMAIN read.manifest.files = F
            /\ \A p \in F : read.manifest.files[p] = Sha256(last.prefs[p][2])

----------------------------------------------------------------------------
(* Claims checked under Spec. *)

\* C4 (selector order): for a commit with two archives or more, findSnapshot
\* (commit, index) is the archive at position index of the commit's file names
\* in descending order, so index 0 is the newest.
C4_SelectorNewestFirst ==
    \A c \in Commits :
        LET S == ArchivesOf(snapshots, c)
        IN  Cardinality(S) >= 2 =>
                \A i \in 0..(Cardinality(S) - 1) :
                    LET r == findSnapshot(snapshots, c, i)
                    IN  /\ r.err = "ok"
                        /\ Cardinality({g \in S : StrLess(r.path, g)}) = i

\* C5 (retention): after a successful prune with retention N >= 1, a commit that
\* had M > N archives has exactly N, the N greatest file names it had.
C5_Retention ==
    (last.op = "prune" /\ last.err = "ok" /\ EffectiveRetention >= 1) =>
        \A c \in Commits :
            LET before == ArchivesOf(last.presnaps, c)
                after == ArchivesOf(snapshots, c)
            IN  Cardinality(before) > EffectiveRetention =>
                    /\ Cardinality(after) = EffectiveRetention
                    /\ after = Greatest(before, EffectiveRetention)

\* A prune that kept two of the three archives of a commit.
C5_Witness ==
    /\ last.op = "prune" /\ last.err = "ok" /\ last.retention = 2
    /\ \E c \in Commits : Cardinality(ArchivesOf(last.presnaps, c)) = 3
    /\ Cardinality(DOMAIN snapshots) = 2

\* C6 (immutable archives): a successful CreateSnapshot adds exactly one file to
\* the snapshots directory and leaves every archive that was there as it was.
C6_WriterAddsOneFile ==
    (last.op = "snapshot" /\ last.err = "ok") =>
        /\ Cardinality(DOMAIN snapshots) = Cardinality(DOMAIN last.presnaps) + 1
        /\ last.name \notin DOMAIN last.presnaps
        /\ \A f \in DOMAIN last.presnaps :
             f \in DOMAIN snapshots /\ snapshots[f] = last.presnaps[f]

\* C10 (index disambiguates): two archives of one commit on disk at the same time
\* carry different manifest indices and different index tokens in their names.
C10_DistinctIndices ==
    \A f, g \in DOMAIN snapshots :
        (f # g /\ FirstPart(f) = FirstPart(g)) =>
            /\ WrittenManifest(snapshots[f]).index # WrittenManifest(snapshots[g]).index
            /\ IndexToken(f) # IndexToken(g)

\* C15 (prune input validation): prune run with a retention count below 1, 0
\* or negative, returns an error and deletes no archive.
C15_PruneRejectsBelowOne ==
    (last.op = "prune" /\ last.retention < 1) =>
        (last.err = "error" /\ snapshots = last.presnaps)

\* The last n elements of the sequence s, all of them when it has fewer.
LastOf(s, n) == {s[i] : i \in {j \in 1..Len(s) : j > Len(s) - n}}

\* The archives of commit c among the files of the sequence s, in its order.
OfCommit(s, c) == LET Named(f) == FirstPart(f) = c IN SelectSeq(s, Named)

\* C21 (prune keeps the latest): after a successful prune with retention N, the
\* archives of each commit left on disk are the N archives of that commit that
\* were created last, all of them when it had N or fewer.
C21_PruneKeepsLatest ==
    (last.op = "prune" /\ last.err = "ok") =>
        \A c \in Commits :
            ArchivesOf(snapshots, c) =
                LastOf(OfCommit(last.precreated, c), EffectiveRetention)

----------------------------------------------------------------------------
(* Claims checked under SpecName. *)

\* C7 (file-name order): for two archives of one commit, the file names compare
\* as the pairs (time stamp, index) do, the index compared as a number.
C7_NameOrderIsSnapshotOrder ==
    \A f, g \in DOMAIN snapshots :
        FirstPart(f) = FirstPart(g) =>
            LET m == WrittenManifest(snapshots[f])
                n == WrittenManifest(snapshots[g])
            IN  StrLess(f, g) <=>
                    \/ m.timestamp < n.timestamp
                    \/ m.timestamp = n.timestamp /\ m.index < n.index

----------------------------------------------------------------------------
(* Claims checked under SpecFilter. *)

\* The base name of path p matches one of the patterns.
MatchesSome(patterns, p) == \E k \in 1..Len(patterns) : Match(patterns[k], Base(p))

Elements(s) == {s[i] : i \in 1..Len(s)}

----------------------------------------------------------------------------
(* Claims checked under SpecRepository. *)

\* The regular files on disk that an entry of cfg.Include names.
IncludedOnDisk(tree, cfg) ==
    {p \in RegularFiles(tree) : \E k \in 1..Len(cfg.Include) : cfg.Include[k] = p}

\* C13 (configured includes are candidates): when CreateSnapshot gets the commit
\* and the enumeration from git, every path an include entry names that exists
\* on disk is in the snapshot's file set, listed by the enumeration or not.
C13_IncludesAreCandidates ==
    (/\ last.op = "snapshot"
     /\ ~GetCurrentCommit(last.commit).err
     /\ gitIndex.readable)
    => \A p \in IncludedOnDisk(last.prefs, config) :
           /\ last.err = "ok"
           /\ p \in DataNames(snapshots[last.name])

\* C19 (early failure writes nothing): when HEAD names no commit, the
\* enumeration fails or the filtered file set is empty, CreateSnapshot returns
\* an error and the snapshots directory holds the files it held, unchanged.
C19_EarlyFailureWritesNothing ==
    (/\ last.op = "snapshot"
     /\ \/ last.commit = NoHead
        \/ ~gitIndex.readable
        \/ \A p \in RegularFiles(last.prefs) \ gitIndex.tracked :
               MatchesSome(config.Exclude, p) /\ ~MatchesSome(config.Include, p))
    => (last.err = "error" /\ snapshots = last.presnaps)

\* A CreateSnapshot in a repository with a commit and a readable index, whose
\* enumeration lists files that the exclude patterns all remove.
C19_Witness ==
    /\ last.op = "snapshot" /\ last.err = "error"
    /\ last.commit # NoHead /\ gitIndex.readable
    /\ RegularFiles(last.prefs) \ gitIndex.tracked # {}
    /\ snapshots = EmptyMap

----------------------------------------------------------------------------
(* Claims checked under SpecDamaged. *)

\* The archive the last restore selected, as it was when the restore began.
Selected == last.presnaps[last.name]

\* The data entries of an archive: those not named manifest.json.
DataEntries(archive) == {i \in 1..Len(archive) : archive[i].name # ManifestJson}

\* C14 (checksum validation): when dryRun is false, the manifest of the selected
\* archive is read and binds the commit, and an entry RestoreSnapshot comes to
\* holds content whose digest is not the one the manifest records for its path,
\* the call fails and that content is not written to the path.
C14_ChecksumValidated ==
    (/\ last.op = "restore" /\ ~last.dryRun
     /\ last.name \in DOMAIN last.presnaps
     /\ ReadManifest(Selected).ok
     /\ ReadManifest(Selected).manifest.commit = last.commit)
    => \A i \in DataEntries(Selected) :
           LET e == Selected[i]
               recorded == ReadManifest(Selected).manifest.files
           IN  (/\ e.name \in DOMAIN recorded
                /\ recorded[e.name] # Sha256(e.body[2])
                /\ last.force \/ ~StatOk(last.prefs, e.name))
               => (last.err = "error" /\ fs[e.name] # File(e.body[2]))

\* C16 (selector errors): a restore of a commit without an archive, or with an
\* index outside 0 .. count-1, negative indices included, ends with an error,
\* not a crash, with no path selected and no file written.
C16_SelectorErrors ==
    (/\ last.op = "restore"
     /\ \/ ArchivesOf(last.presnaps, last.commit) = {}
        \/ last.index < 0
        \/ last.index >= Cardinality(ArchivesOf(last.presnaps, last.commit)))
    => (last.err = "error" /\ last.name = <<>> /\ fs = last.prefs)

\* C20 (unusable archive): when the selected archive has no manifest.json
\* entry, or none of its manifest.json entries decodes, reading the manifest
\* fails and RestoreSnapshot fails with the working tree as it was.
C20_UnusableArchive ==
    (/\ last.op = "restore"
     /\ last.name \in DOMAIN last.presnaps
     /\ \A i \in 1..Len(Selected) :
            Selected[i].name = ManifestJson =>
                (Selected[i].body[1] = "raw" /\ Selected[i].body[2] # "{}"))
    => (/\ ~ReadManifest(Selected).ok
        /\ last.err = "error"
        /\ fs = last.prefs)

\* A forced restore, not a dry run, of an archive that lost its manifest entry
\* and holds a data entry whose destination does not exist.
C20_Witness ==
    /\ last.op = "restore" /\ last.force /\ ~last.dryRun /\ last.err = "error"
    /\ last.name \in DOMAIN last.presnaps
    /\ \A i \in 1..Len(Selected) : Selected[i].name # ManifestJson
    /\ \E i \in 1..Len(Selected) : last.prefs[Selected[i].name] = Absent

----------------------------------------------------------------------------
(* Claims about the entries of a restore, checked under SpecRestore. *)

\* The restore got as far as its loop over the entries: an archive was
\* selected, its manifest was read and names the requested commit.
ReachedEntries ==
    /\ last.op = "restore"
    /\ last.name \in DOMAIN last.presnaps
    /\ ReadManifest(Selected).ok
    /\ ReadManifest(Selected).manifest.commit = last.commit

\* A file lies where a directory of path p would have to be.
RECURSIVE FileInTheWay(_, _)
FileInTheWay(tree, p) ==
    /\ Dir(p) # Dot
    /\ \/ Dir(p) \in DOMAIN tree /\ IsFile(tree[Dir(p)])
       \/ FileInTheWay(tree, Dir(p))

\* Every data entry whose destination existed was left alone, every other one
\* was written with the archived content, and the call succeeded.
SkippedAndContinued ==
    /\ last.err = "ok"
    /\ \A i \in DataEntries(Selected) :
         LET e == Selected[i]
         IN  IF StatOk(last.prefs, e.name)
             THEN fs[e.name] = last.prefs[e.name] /\ <<e.name, "skip">> \in last.report
             ELSE fs[e.name] = File(e.body[2])

C18_DryRunFidelity ==
    (ReachedEntries /\ ~last.dryRun) =>
        last.report = RestoreEntries(Selected, last.prefs, TRUE, last.force).report

----------------------------------------------------------------------------
(* Claims checked under SpecStorage. *)

DotGit == <<".", "g", "i", "t">>

\* Path p lies under the directory d.
Under(p, d) == HasPrefix(p, d \o <<"/">>)

\* C22 (the tool's own storage is left out): no archive in the snapshots
\* directory holds a data entry whose path lies under .ignoregrets/ or .git/.
C22_StorageLeftOut ==
    \A f \in DOMAIN snapshots :
        \A i \in DataEntries(snapshots[f]) :
            /\ ~Under(snapshots[f][i].name, DotIgnoregrets)
            /\ ~Under(snapshots[f][i].name, DotGit)

----------------------------------------------------------------------------
(* Claims checked under SpecCommands. *)

\* C23: for every snapshot that list prints, the number shown as "(N files)"
\* is the number of paths in that snapshot's manifest files map.
C23_ListFileCount ==
    (last.op = "list") =>
        \A line \in last.report :
            line.files =
                Cardinality(DOMAIN ReadManifest(last.presnaps[line.path]).manifest.files)

\* C28: restore (findSnapshot), inspect and the latest lookup of status resolve
\* the same commit and index to the same archive file; index 0 of restore,
\* index 0 of inspect and the snapshot status uses are one file.
C28_SameIndexSameArchive ==
    /\ (last.op = "inspect" /\ last.err = "ok") =>
           LET restored == findSnapshot(last.presnaps, last.commit, last.index)
           IN  restored.err = "ok" /\ restored.path = last.name
    /\ (last.op = "status" /\ last.err = "ok") =>
           /\ findSnapshot(last.presnaps, last.commit, 0).path = last.name
           /\ inspectSelect(last.presnaps, last.commit, 0).path = last.name

----------------------------------------------------------------------------
(* Claims checked under SpecStatus. *)

\* The lists of the status that ran last.
StatusLists == CHOOSE lists \in last.report : TRUE

\* The files map of the manifest that status compared against.
SnapshotFiles == ReadManifest(last.presnaps[last.name]).manifest.files

\* The current files: what git lists in the tree status started from.
CurrentFiles == RegularFiles(last.prefs) \ gitIndex.tracked

\* The number of times p occurs in the slice s.
Occurrences(s, p) == Cardinality({i \in 1..Len(s) : s[i] = p})

InList(s, p) == Occurrences(s, p) > 0

\* C24: status places every path of (snapshot files and current files) in
\* exactly one of its four lists: deleted iff in the snapshot and not current,
\* added iff current and not in the snapshot, modified iff in both with
\* different checksums, unchanged iff in both with equal checksums; no added
\* file is left out, and the lists hold no other path.
C24_StatusClassification ==
    (last.op = "status" /\ last.err = "ok") =>
        LET lists == StatusLists
            snap == SnapshotFiles
            sum(p) == Sha256(last.prefs[p][2])
        IN  /\ \A p \in DOMAIN snap \cup CurrentFiles :
                 /\ Occurrences(lists.deleted, p) + Occurrences(lists.added, p)
                      + Occurrences(lists.modified, p)
                      + Occurrences(lists.unchanged, p) = 1
                 /\ InList(lists.deleted, p) <=>
                        (p \in DOMAIN snap /\ p \notin CurrentFiles)
                 /\ InList(lists.added, p) <=>
                        (p \in CurrentFiles /\ p \notin DOMAIN snap)
                 /\ InList(lists.modified, p) <=>
                        (p \in DOMAIN snap /\ p \in CurrentFiles /\ sum(p) # snap[p])
                 /\ InList(lists.unchanged, p) <=>
                        (p \in DOMAIN snap /\ p \in CurrentFiles /\ sum(p) = snap[p])
            /\ \A p \in Elements(lists.deleted) \cup Elements(lists.added)
                          \cup Elements(lists.modified) \cup Elements(lists.unchanged) :
                 p \in DOMAIN snap \cup CurrentFiles

\* Status ran on a tree with a file changed since the snapshot and a file
\* created since: one path is modified, another is added.
C24_Witness ==
    /\ last.op = "status" /\ last.err = "ok"
    /\ StatusLists.modified # <<>>
    /\ StatusLists.added # <<>>
    /\ \E p \in DOMAIN SnapshotFiles :
          p \in CurrentFiles /\ Sha256(last.prefs[p][2]) # SnapshotFiles[p]

\* C30: when status runs right after a successful CreateSnapshot for the
\* current commit, with no file changed in between, it reports every
\* snapshotted file as unchanged and no file as added, modified or deleted,
\* whatever the configuration's exclude patterns.
C30_SnapshotThenStatus ==
    (last.op = "status" /\ last.previous.op = "snapshot" /\ last.previous.err = "ok") =>
        /\ last.err = "ok"
        /\ last.name = last.previous.name
        /\ Elements(StatusLists.unchanged) = DOMAIN SnapshotFiles
        /\ StatusLists.added = <<>>
        /\ StatusLists.modified = <<>>
        /\ StatusLists.deleted = <<>>

----------------------------------------------------------------------------
(* Claims checked under SpecConfig. *)

\* C25: LoadConfig after SaveConfig(cfg), for cfg with retention >= 1 and
\* non-empty snapshot_on and restore_on, returns a configuration equal to cfg
\* in all six fields; after any SaveConfig, LoadConfig returns neither a
\* retention < 1 nor an empty event list: 10, [commit], [checkout] take their place.
C25_ConfigRoundTrip ==
    (last.op = "load" /\ last.previous.op = "save" /\ last.previous.err = "ok") =>
        LET cfg == last.preconfig
        IN  /\ last.err = "ok"
            /\ (cfg.Retention >= 1 /\ cfg.SnapshotOn # <<>> /\ cfg.RestoreOn # <<>>)
                   => config = cfg
            /\ config.Retention >= 1
            /\ config.SnapshotOn # <<>>
            /\ config.RestoreOn # <<>>
            /\ cfg.Retention < 1 => config.Retention = 10
            /\ cfg.SnapshotOn = <<>> => config.SnapshotOn = <<"commit">>
            /\ cfg.RestoreOn = <<>> => config.RestoreOn = <<"checkout">>
            /\ config.HooksEnabled = cfg.HooksEnabled
            /\ config.Exclude = cfg.Exclude
            /\ config.Include = cfg.Include

\* A configuration other than the default one, with a pattern that needs
\* quoting in the document, was saved and then loaded, and came back equal.
C25_Witness ==
    /\ last.op = "load" /\ last.err = "ok"
    /\ last.previous.op = "save" /\ last.previous.err = "ok"
    /\ last.preconfig.Retention \in 1..MaxRetention
    /\ last.preconfig.SnapshotOn = <<"commit", "checkout">>
    /\ last.preconfig.RestoreOn = <<"checkout">>
    /\ last.preconfig.HooksEnabled
    /\ last.preconfig.Exclude = <<(<<"*">>)>>
    /\ last.preconfig.Include = <<DotEnv>>
    /\ last.prefs[ConfigYaml] = File(yamlMarshal(last.preconfig))
    /\ config = last.preconfig

----------------------------------------------------------------------------
(* A restore that fails part way, checked under SpecRestore. *)

\* Entry i of the selected archive is one the restore has to write, and the
\* write cannot succeed in the tree the restore started from: a file lies
\* where its directory has to be, or a directory lies at its destination.
CannotWrite(i) ==
    LET e == Selected[i]
    IN  /\ e.name # ManifestJson
        /\ ~StatOk(last.prefs, e.name) \/ last.force
        /\ \/ FileInTheWay(last.prefs, e.name)
           \/ last.prefs[e.name] = DirNode

\* The first entry whose write fails.
FirstFailure == CHOOSE k \in 1..Len(Selected) :
                    CannotWrite(k) /\ \A i \in 1..(k - 1) : ~CannotWrite(i)

\* C26: when writing the k-th data entry fails during RestoreSnapshot with
\* dryRun = false, the call returns an error, every file written for the
\* entries before k stays on disk with the archived content, and no entry
\* after k is processed.
C26_PartialRestoreStays ==
    (/\ ReachedEntries /\ ~last.dryRun
     /\ \E k \in 1..Len(Selected) : CannotWrite(k))
    => LET k == FirstFailure
       IN  /\ last.err = "error"
           /\ \A i \in DataEntries(Selected) :
                LET e == Selected[i]
                IN  /\ (i < k /\ (last.force \/ ~StatOk(last.prefs, e.name)))
                           => fs[e.name] = File(e.body[2])
                    /\ (i < k /\ ~last.force /\ StatOk(last.prefs, e.name))
                           => fs[e.name] = last.prefs[e.name]
                    /\ i >= k => fs[e.name] = last.prefs[e.name]

\* A restore wrote .env, which was missing, and then failed on build/out,
\* build being a file: .env is on disk with the archived content.
C26_Witness ==
    /\ ReachedEntries /\ ~last.dryRun /\ last.err = "error"
    /\ Len(Selected) >= 2
    /\ Selected[1].name = DotEnv /\ Selected[2].name = BuildOut
    /\ last.prefs[DotEnv] = Absent /\ IsFile(last.prefs[Build])
    /\ CannotWrite(2)
    /\ fs[DotEnv] = File(Selected[1].body[2])
    /\ fs[BuildOut] = Absent

----------------------------------------------------------------------------
(* Claims checked under SpecRace. *)

\* Processes p and q both read the listing count before either created its
\* file: their manifests carry the same commit and the same index.
SameIndex(p, q) ==
    /\ p # q
    /\ running[p].pc \in {"prepared", "created", "done"}
    /\ running[q].pc \in {"prepared", "created", "done"}
    /\ running[p].manifest.commit = running[q].manifest.commit
    /\ running[p].manifest.index = running[q].manifest.index

\* The archive process p writes when no file it listed is missing.
ArchiveOf(p) ==
    LET added == AddFiles(running[p].order, TreeOneFile, <<>>, running[p].manifest)
    IN  Append(added.tw, Entry(ManifestJson, Marshal(added.manifest)))

\* The processes that got as far as creating a file.
Creators ==
    {r \in Procs : running[r].pc \in {"created", "done", "failed"} /\ running[r].path # <<>>}

\* C27: two CreateSnapshot calls for the same commit that both read the
\* listing count before either creates its file compute the same index and, in
\* the same minute, the same file name; the second create truncates the first
\* archive, and when both have returned the directory holds fewer files than
\* processes created one: a single archive for the two, written by one of those
\* that share its name.
C27_IndexRace ==
    /\ \A p, q \in Procs :
         (SameIndex(p, q) /\ running[p].manifest.timestamp = running[q].manifest.timestamp)
         => /\ running[p].path = running[q].path
            /\ (running[p].pc = "done" /\ running[q].pc = "done")
                   => /\ running[p].path \in DOMAIN snapshots
                      /\ Cardinality(DOMAIN snapshots) < Cardinality(Creators)
                      /\ (\A r \in Procs : running[r].path = running[p].path
                                              => running[r].pc = "done")
                             => \E r \in Procs :
                                   /\ running[r].path = running[p].path
                                   /\ snapshots[running[p].path] = ArchiveOf(r)
    /\ (last.op = "create" /\ last.name \in DOMAIN last.presnaps)
           => /\ snapshots[last.name] = <<>>
              /\ DOMAIN snapshots = DOMAIN last.presnaps

\* Two processes listed an empty directory in the same minute, the first
\* wrote a complete archive, the second truncated it and wrote its own: both
\* returned success and the directory holds one file.
C27_Witness ==
    /\ \A p \in Procs : p <= 2 => running[p].pc = "done"
    /\ SameIndex(1, 2)
    /\ running[1].path = running[2].path
    /\ Cardinality(DOMAIN snapshots) = 1
    /\ last.op = "snapshot" /\ last.err = "ok"
    /\ last.presnaps[last.name] = <<>>

\* C29: after CreateSnapshot returns, with success or with an error, every
\* .tar.gz file of the snapshots directory contains a manifest.json entry: a
\* failed CreateSnapshot leaves no file that counts toward the next index,
\* retention or selection.
C29_NoManifestlessArchive ==
    (\A p \in Procs : running[p].pc \in {"start", "done", "failed"}) =>
        \A f \in DOMAIN snapshots :
            \E i \in 1..Len(snapshots[f]) : snapshots[f][i].name = ManifestJson

====
